---- MODULE Spec2Model ----
(***************************************************************************)
(* A model of g10/ecdh.c of GnuPG: the default KEK parameters              *)
(* (pk_ecdh_default_params) and the ECDH key-wrapping pipeline             *)
(* (pk_ecdh_encrypt_with_shared_point, entered through pk_ecdh_decrypt or  *)
(* with is_encrypt = 1 from pk_ecdh_encrypt).                              *)
(*                                                                         *)
(* Octet strings are sequences of 0..255.  An MPI is the sequence of its   *)
(* big-endian octets without leading zero octets; NoMpi is the NULL        *)
(* pointer.  A C buffer is a sequence whose element at C offset k is       *)
(* buf[k+1].  The pipeline is one call, cut into the blocks of the source; *)
(* pc names the block that runs next.                                      *)
(***************************************************************************)
EXTENDS Integers, Sequences, FiniteSets, TLC

----------------------------------------------------------------------------
(* Bounds of the model. *)

\* pk_ecdh_default_params is applied to every qbits in 0..MaxQbits.
MaxQbits == 1024
\* Octet positions of a wrapped key that the tampering caller modifies:
\* 2 .. 1+MaxTamper (the first octets of the wrap) and the last octet.
MaxTamper == 2

----------------------------------------------------------------------------
(* Program constants. *)

DIGEST_ALGO_SHA256 == 8
DIGEST_ALGO_SHA384 == 9
DIGEST_ALGO_SHA512 == 10
CIPHER_ALGO_AES == 7
CIPHER_ALGO_AES256 == 9
GCRY_MD_SHA256 == 8
GCRY_MD_SHA384 == 9
GCRY_MD_SHA512 == 10
GCRY_CIPHER_AES128 == 7
GCRY_CIPHER_AES192 == 8
GCRY_CIPHER_AES256 == 9
PUBKEY_ALGO_ECDH == 18
\* sizeof (kdf_params)
KdfParamsMax == 256
\* the width of a byte: data_buf[0] = data_buf_size+8 keeps the low 8 bits
ByteMod == 256

\* Error values (libgpg-error numbering).
GPG_ERR_BAD_PUBKEY == 6
GPG_ERR_BAD_MPI == 30
GPG_ERR_BAD_KEY == 19
GPG_ERR_ENOMEM == 32854
\* returned by the backend calls of the pipeline
GPG_ERR_CHECKSUM == 10
GPG_ERR_INV_ARG == 45
GPG_ERR_TOO_SHORT == 66
GPG_ERR_CIPHER_ALGO == 12
GPG_ERR_SELFTEST_FAILED == 50
GPG_ERR_TOO_LARGE == 67

\* The NULL gcry_mpi_t, and what the caller's result variable holds before the
\* callee has stored anything in it.
NoMpi == <<-1>>
StaleMpi == <<-2>>

----------------------------------------------------------------------------
(* Octet strings. *)

\* The sum of w * s[i] over lo..hi, w being i when weighted and 1 otherwise
\* (by halves: the recursion stays shallow on long strings).
RECURSIVE SumRange(_, _, _, _)
SumRange(s, lo, hi, weighted) ==
  IF lo > hi THEN 0
  ELSE IF lo = hi THEN (IF weighted THEN lo * s[lo] ELSE s[lo])
  ELSE LET mid == (lo + hi) \div 2
       IN  SumRange(s, lo, mid, weighted) + SumRange(s, mid + 1, hi, weighted)

\* The sum of the octets of s.
SumSeq(s) == SumRange(s, 1, Len(s), FALSE)

\* A function on 1..n as a sequence.
Octets(f) == <<>> \o f

\* A string of len octets that depends on seed; its first octet is not 0.
Pattern(len, seed) ==
  Octets([i \in 1..len |-> IF i = 1 THEN 1 + (seed % 255)
                                    ELSE (seed * 7 + i * 13) % 256])

\* The n octets of buf from C offset off on.
Peek(buf, off, n) == SubSeq(buf, off + 1, off + n)

\* buf with bytes stored from C offset off on (the caller keeps
\* off + Len(bytes) within the buffer).
Poke(buf, off, bytes) ==
  SubSeq(buf, 1, off) \o bytes \o SubSeq(buf, off + Len(bytes) + 1, Len(buf))

\* n octets of value c.
Fill(n, c) == Octets([i \in 1..n |-> c])

RECURSIVE StripZeros(_)
StripZeros(s) ==
  IF s # <<>> /\ s[1] = 0 THEN StripZeros(Tail(s)) ELSE s

\* gcry_mpi_scan (GCRYMPI_FMT_USG): the MPI of an octet string.
MpiScan(bytes) == StripZeros(bytes)

\* (mpi_get_nbits (a)+7)/8: the natural octet length of an MPI.
MpiNbytes(a) == Len(a)

----------------------------------------------------------------------------
(* pk_ecdh_default_params *)

\* kek_params_table, sorted by ascending qbits.
kek_params_table ==
  << [qbits |-> 256, openpgp_hash_id |-> DIGEST_ALGO_SHA256,
      openpgp_cipher_id |-> CIPHER_ALGO_AES],
     [qbits |-> 384, openpgp_hash_id |-> DIGEST_ALGO_SHA384,
      openpgp_cipher_id |-> CIPHER_ALGO_AES256],
     [qbits |-> 528, openpgp_hash_id |-> DIGEST_ALGO_SHA512,
      openpgp_cipher_id |-> CIPHER_ALGO_AES256] >>

\* KekSearch with the comparison of the loop turned strict (> for >=).
RECURSIVE KekSearchStrict(_, _)
KekSearchStrict(qbits, i) ==
  IF i > Len(kek_params_table) THEN i
  ELSE IF kek_params_table[i].qbits > qbits \/ i = Len(kek_params_table)
       THEN i
       ELSE KekSearchStrict(qbits, i + 1)

\* The for loop of pk_ecdh_default_params: the index at which it breaks,
\* walking from index i (1-based); DIM+1 when it runs off the table.
RECURSIVE KekSearch(_, _)
KekSearch(qbits, i) ==
  IF i > Len(kek_params_table) THEN i
  ELSE IF kek_params_table[i].qbits >= qbits \/ i = Len(kek_params_table)
       THEN i
       ELSE KekSearch(qbits, i + 1)

\* The kek_params array after the loop.
default_kek_params(qbits) ==
  LET i == KekSearch(qbits, 1)
  IN  << 3, 1, kek_params_table[i].openpgp_hash_id,
               kek_params_table[i].openpgp_cipher_id >>

----------------------------------------------------------------------------
(* The collaborators of the pipeline. *)

\* A checksum of s that depends on the order of its octets.
Mix(s) == SumRange(s, 1, Len(s), TRUE)

\* gcry_md_get_algo_dlen
gcry_md_get_algo_dlen(algo) ==
  CASE algo = GCRY_MD_SHA256 -> 32
    [] algo = GCRY_MD_SHA384 -> 48
    [] algo = GCRY_MD_SHA512 -> 64
    [] OTHER -> 0

\* gcry_cipher_get_algo_keylen
gcry_cipher_get_algo_keylen(algo) ==
  CASE algo = GCRY_CIPHER_AES128 -> 16
    [] algo = GCRY_CIPHER_AES192 -> 24
    [] algo = GCRY_CIPHER_AES256 -> 32
    [] OTHER -> 0

\* gcry_md_read after gcry_md_final: the digest of everything written.  The
\* hash is a stand-in: a deterministic function of the algorithm and of the
\* message (its octets, their order, its length), of the digest's length.
Digest(algo, msg) ==
  LET m == Mix(msg)
      t == SumSeq(msg)
  IN  Octets([i \in 1..gcry_md_get_algo_dlen(algo) |->
                (m + t * i + Len(msg) * 3 + algo * 5 + i * 11) % 256])

\* The stand-in for AES key wrap: the key's pad of the key stream and the
\* integrity value that binds key and plaintext.
KeyPad(key) == (Mix(key) + Len(key)) % 256
WrapTag(key, plain) == (Mix(plain) + Mix(key) + Len(plain)) % 256

\* RFC 3394 wrap: 8 octets that carry the integrity value A6.. bound to key
\* and plaintext, then the enciphered plaintext.
AesWrap(key, plain) ==
  LET tag == WrapTag(key, plain)
      pad == KeyPad(key)
  IN  Octets([i \in 1..(Len(plain) + 8) |->
                IF i <= 8 THEN (166 + tag * i) % 256
                          ELSE (plain[i - 8] + pad + (i - 8) * 29) % 256])

\* RFC 3394 unwrap: the deciphered plaintext and whether the integrity value
\* came out as A6 A6 A6 A6 A6 A6 A6 A6.
AesUnwrapPlain(key, wrapped) ==
  LET pad == KeyPad(key)
  IN  Octets([j \in 1..(Len(wrapped) - 8) |->
                (wrapped[j + 8] + 256 * 30 - pad - j * 29) % 256])
AesUnwrapOk(key, wrapped) ==
  LET tag == WrapTag(key, AesUnwrapPlain(key, wrapped))
  IN  \A i \in 1..8 : wrapped[i] = (166 + tag * i) % 256

\* gcry_cipher_encrypt in GCRY_CIPHER_MODE_AESWRAP.
gcry_cipher_encrypt(key, outsize, in) ==
  IF outsize < Len(in) + 8 \/ Len(in) % 8 # 0 \/ Len(in) \div 8 < 2
  THEN [rc |-> GPG_ERR_INV_ARG, out |-> <<>>]
  ELSE [rc |-> 0, out |-> AesWrap(key, in)]

\* gcry_cipher_decrypt in GCRY_CIPHER_MODE_AESWRAP.
gcry_cipher_decrypt(key, outsize, in) ==
  IF outsize + 8 < Len(in) \/ Len(in) % 8 # 0 \/ Len(in) \div 8 < 3
  THEN [rc |-> GPG_ERR_INV_ARG, out |-> <<>>]
  ELSE IF ~AesUnwrapOk(key, in)
       THEN [rc |-> GPG_ERR_CHECKSUM, out |-> <<>>]
       ELSE [rc |-> 0, out |-> AesUnwrapPlain(key, in)]

\* gcry_mpi_print (GCRYMPI_FMT_USG, buffer, buflen, &nwritten, a)
gcry_mpi_print(buflen, a) ==
  IF MpiNbytes(a) > buflen
  THEN [rc |-> GPG_ERR_TOO_SHORT, bytes |-> <<>>]
  ELSE [rc |-> 0, bytes |-> a]

\* iobuf_write_size_body_mpi: one octet giving the length in octets of the
\* value, then the value's octets.
iobuf_write_size_body_mpi(a) ==
  IF MpiNbytes(a) >= ByteMod
  THEN [rc |-> GPG_ERR_TOO_LARGE, bytes |-> <<>>]
  ELSE [rc |-> 0, bytes |-> <<MpiNbytes(a)>> \o a]

\* iobuf_temp_to_buffer: at most buflen octets of what was written.
iobuf_temp_to_buffer(written, buflen) ==
  IF Len(written) > buflen THEN SubSeq(written, 1, buflen) ELSE written

\* pubkey_nbits (PUBKEY_ALGO_ECDH, pkey): the curve strength, derived from
\* the public point Q = 04 || X || Y.
pubkey_nbits(pkey) == 8 * ((MpiNbytes(pkey.q) - 1) \div 2)

\* "Anonymous Sender    "
AnonymousSender ==
  << 65, 110, 111, 110, 121, 109, 111, 117, 115, 32,
     83, 101, 110, 100, 101, 114, 32, 32, 32, 32 >>

----------------------------------------------------------------------------
(* The inputs of the model. *)

\* Curve OIDs: NIST P-256, P-384 and P-521.
OidP256 == << 42, 134, 72, 206, 61, 3, 1, 7 >>
OidP384 == << 43, 129, 4, 0, 34 >>
OidP521 == << 43, 129, 4, 0, 35 >>
\* NIST P-192, a curve of 24-octet coordinates.
OidP192 == << 42, 134, 72, 206, 61, 3, 1, 1 >>

\* An OID field of len octets (not a conforming curve OID).
LongOid(len) == Pattern(len, 43)

\* The octets the KDF input holds besides the OID: the OID's length octet,
\* the algorithm id, the 4 KEK octets, the sender string, the fingerprint.
KdfFixedLen == 1 + 1 + 4 + Len(AnonymousSender) + 20

\* A public point 04 || X || Y of a curve of nbytes-octet coordinates.
PointOf(nbytes) ==
  Octets([i \in 1..(2 * nbytes + 1) |-> IF i = 1 THEN 4 ELSE (i * 7) % 256])

\* The values of the KEK-parameter field of a public key: version, hash id,
\* cipher id for every accepted pair, and malformed ones (too short, too
\* long, version 2, SHA-1, CAST5, empty).
GoodKekValues ==
  { <<1, h, c>> : h \in {GCRY_MD_SHA256, GCRY_MD_SHA384, GCRY_MD_SHA512},
                  c \in {GCRY_CIPHER_AES128, GCRY_CIPHER_AES192,
                         GCRY_CIPHER_AES256} }
BadKekValues ==
  { <<1, 8>>, <<1, 8, 7, 7>>, <<2, 8, 7>>, <<1, 2, 7>>, <<1, 8, 3>>, <<>> }
KekValues == GoodKekValues \cup BadKekValues

\* Public keys (curve OID c, public point q, KEK parameters p): the three
\* supported curves with every KEK value, and P-256 points under an OID
\* field that just fits the scratch buffer, exceeds it by one octet, or is
\* too long for a length octet.
SupportedKeys ==
  { [c |-> k[1], q |-> PointOf(k[2]), p |-> kek] :
      k \in { <<OidP256, 32>>, <<OidP384, 48>>, <<OidP521, 66>> },
      kek \in KekValues }
OddKeys ==
  { [c |-> LongOid(len), q |-> PointOf(32), p |-> <<1, 8, 7>>] :
      len \in { KdfParamsMax - KdfFixedLen, KdfParamsMax - KdfFixedLen + 1,
                ByteMod } }
\* Keys of a curve shorter than the digests and cipher keys that the
\* KEK parameters may name: SHA-256 with AES-128, SHA-512 with AES-128,
\* SHA-256 with AES-256.
SmallKeys ==
  { [c |-> OidP192, q |-> PointOf(24), p |-> kek] :
      kek \in { <<1, 8, 7>>, <<1, 10, 7>>, <<1, 8, 9>> } }
Keys == SupportedKeys \cup OddKeys \cup SmallKeys

\* Recipient fingerprints.
Fingerprints == { Fill(20, 0), Pattern(20, 9) }

\* Shared points for a key: of the public point's length (two values), one
\* octet longer, one framing octet plus X only, and X only.
SharedPoints(pkey) ==
  LET n == (pubkey_nbits(pkey) + 7) \div 8
  IN  { Pattern(MpiNbytes(pkey.q), 3), Pattern(MpiNbytes(pkey.q), 5),
        Pattern(MpiNbytes(pkey.q) + 1, 3), Pattern(n + 1, 3), Pattern(n, 3) }

\* The shared point of a key that the model pairs with every other input.
MainShared(pkey) == Pattern(MpiNbytes(pkey.q), 3)

\* Padded session keys handed to encryption: 16 and 24 octets, the longest
\* whose wrap length fits an octet and the next one, and two that the wrap
\* or the size assertion refuses (8 and 17 octets).
PlainKeys ==
  { Pattern(len, 7) : len \in {8, 16, 17, 24, ByteMod - 16, ByteMod - 8} }

\* Session-key MPIs handed to decryption by a caller that did not get them
\* from encryption: no MPI, and MPIs of total octets with first octet first.
ForeignWraps ==
  { NoMpi } \cup
  { Octets([i \in 1..w[1] |-> IF i = 1 THEN w[2] ELSE (i * 5) % 256]) :
      w \in { <<1, 1>>, <<17, 16>>, <<18, 16>>, <<18, 17>>,
              <<25, 24>>, <<25, 16>> } }

\* Octets an allocator hands out in fresh memory.
JunkBytes == { 0, 170 }

----------------------------------------------------------------------------
(* The state. *)

VARIABLES
  pc,            \* the block of the pipeline that runs next
  is_encrypt, shared_mpi, pk_fp, data, pkey,   \* the arguments
  out,           \* *out / *result
  rc,            \* the value returned
  secret_x,      \* [st, buf]: the secret buffer
  secret_x_size,
  kdf_params,    \* the first kdf_params_size octets of kdf_params
  kdf_hash_algo, kdf_encr_algo,
  iobufs,        \* [opened, closed]: temporary iobufs
  md,            \* [opened, closed]: hash contexts
  hd,            \* [opened, closed, key]: cipher contexts
  data_buf,      \* [st, buf]: the work buffer
  data_buf_size,
  call,          \* how the caller made the call
  plain,         \* the session key the caller has encrypted before
  fault,         \* the backend failure met in this call
  qbits, buffer, \* pk_ecdh_default_params: argument and result
  s_ciph,        \* [st, reads, late]: pk_ecdh_encrypt's result container
  resarr0        \* resarr[0]: the ephemeral public point

args == << is_encrypt, shared_mpi, pk_fp, data, pkey >>
locals == << secret_x, secret_x_size, kdf_params, kdf_hash_algo,
             kdf_encr_algo, iobufs, md, hd, data_buf, data_buf_size >>
caller == << call, plain, s_ciph, resarr0 >>
params == << qbits, buffer >>
vars == << pc, args, out, rc, locals, caller, fault, params >>

\* No buffer: a pointer not yet set.
NoBuf == [st |-> "none", buf |-> <<>>]
\* xmalloc_secure / xtrymalloc_secure: n octets of unspecified content.
Malloc(n, junk) == [st |-> "live", buf |-> Fill(n, junk)]
\* xfree of secure memory: the block is wiped and released.
Xfree(b) == [st |-> "freed", buf |-> <<>>]

NoCtx == [opened |-> 0, closed |-> 0]

\* No s-expression: the handle before gcry_pk_encrypt has stored one.
NoSexp == [st |-> "none", reads |-> {}, late |-> {}]

Init ==
  /\ pc = "idle"
  /\ is_encrypt = FALSE /\ shared_mpi = <<>> /\ pk_fp = <<>>
  /\ data = <<>> /\ pkey = [c |-> <<>>, q |-> <<>>, p |-> <<>>]
  /\ out = NoMpi /\ rc = 0
  /\ secret_x = NoBuf /\ secret_x_size = 0
  /\ kdf_params = <<>> /\ kdf_hash_algo = 0 /\ kdf_encr_algo = 0
  /\ iobufs = NoCtx /\ md = NoCtx /\ hd = [opened |-> 0, closed |-> 0, key |-> <<>>]
  /\ data_buf = NoBuf /\ data_buf_size = 0
  /\ call = "none" /\ plain = <<>> /\ fault = "none"
  /\ qbits = 0 /\ buffer = <<>>
  /\ s_ciph = NoSexp /\ resarr0 = NoMpi

\* The locals of a call that has just been entered.
Enter ==
  /\ secret_x' = NoBuf /\ secret_x_size' = 0
  /\ kdf_params' = <<>> /\ kdf_hash_algo' = 0 /\ kdf_encr_algo' = 0
  /\ iobufs' = NoCtx /\ md' = NoCtx
  /\ hd' = [opened |-> 0, closed |-> 0, key |-> <<>>]
  /\ data_buf' = NoBuf /\ data_buf_size' = 0
  /\ fault' = "none"

----------------------------------------------------------------------------
(* pk_ecdh_default_params *)

\* pk_ecdh_default_params (qbits, &sizeout): the buffer returned, <<>> for
\* NULL when xtrymalloc fails.
pk_ecdh_default_params(q, nomem) ==
  IF nomem THEN <<>> ELSE default_kek_params(q)

DefaultParams ==
  /\ pc = "idle"
  /\ \E q \in 0..MaxQbits, nomem \in BOOLEAN :
       /\ qbits' = q
       /\ buffer' = pk_ecdh_default_params(q, nomem)
       /\ fault' = IF nomem THEN "xtrymalloc" ELSE "none"
  /\ pc' = "returned"
  /\ UNCHANGED << args, out, rc, locals, caller >>

----------------------------------------------------------------------------
(* The callers. *)

\* The inputs the model pairs with everything else.
MainFp == Fill(20, 0)
MainKek == <<1, 8, 7>>
MainData ==
  { Pattern(16, 7), Octets([i \in 1..25 |-> IF i = 1 THEN 24 ELSE (i * 5) % 256]) }

\* The combinations of arguments the model runs: every supported key with
\* its main shared point, every fingerprint and every session key; the
\* other shared points and the keys with an odd OID field with the main
\* fingerprint, KEK parameters and session keys only.
Plausible(key, sp, fp, d) ==
  /\ (key \in OddKeys \/ sp # MainShared(key)) =>
       /\ fp = MainFp
       /\ key.p = MainKek
       /\ d \in MainData
       /\ key \in OddKeys => sp = MainShared(key)
  /\ key \in SmallKeys =>
       fp = MainFp /\ d \in MainData /\ sp = MainShared(key)

\* The ephemeral public point gcry_pk_encrypt returns as "b" for a key.
EphemeralPoint(key) == Pattern(MpiNbytes(key.q), 11)

\* gcry_pk_encrypt (&s_ciph, s_data, s_pkey): the container it returns.
gcry_pk_encrypt(key, sp) ==
  [sexp |-> [st |-> "live", reads |-> {}, late |-> {}],
   a |-> sp, b |-> EphemeralPoint(key)]

\* gcry_sexp_release
gcry_sexp_release(s) == [s EXCEPT !.st = "released"]

\* mpi_from_sexp (s, name): the container after the read, which is a read
\* of released memory when s has been released.
mpi_from_sexp(s, name) ==
  IF s.st = "live" THEN [s EXCEPT !.reads = @ \cup {name}]
                   ELSE [s EXCEPT !.late = @ \cup {name}]

\* What a read of a released container can give: the value that was there,
\* other octets, no MPI, or a crash.
StaleReads == { "intact", "garbage", "null", "crash" }
StaleValue(how, value) ==
  CASE how = "intact" -> value
    [] how = "garbage" -> Pattern(Len(value), 13)
    [] OTHER -> NoMpi

\* The model follows the outcomes of a stale read other than the intact
\* value for the main inputs only.
StalePlausible(how, key, sp, fp, d) ==
  how # "intact" =>
    /\ key \in SupportedKeys /\ key.p = MainKek /\ sp = MainShared(key)
    /\ fp = MainFp /\ d \in MainData

\* pk_ecdh_encrypt after gcry_pk_encrypt has succeeded: shared is read from
\* s_ciph, s_ciph is released, resarr[0] is read from s_ciph, and the
\* pipeline is called with is_encrypt = 1.
EnterEncrypt ==
  /\ pc = "idle"
  /\ \E key \in Keys, fp \in Fingerprints, d \in PlainKeys :
       \E sp \in SharedPoints(key), how \in StaleReads :
         LET enc == gcry_pk_encrypt(key, sp)
             s1 == mpi_from_sexp(enc.sexp, "a")
             s2 == gcry_sexp_release(s1)
             s3 == mpi_from_sexp(s2, "b")
         IN  /\ Plausible(key, sp, fp, d)
             /\ StalePlausible(how, key, sp, fp, d)
             /\ pkey' = key /\ shared_mpi' = enc.a /\ pk_fp' = fp /\ data' = d
             /\ s_ciph' = s3
             /\ resarr0' = IF s3.late = {} THEN enc.b ELSE StaleValue(how, enc.b)
             /\ pc' = IF s3.late # {} /\ how = "crash" THEN "crashed" ELSE "extract"
             /\ s3.late = {} => how = "intact"
  /\ is_encrypt' = TRUE
  /\ out' = StaleMpi
  /\ rc' = 0
  /\ call' = "fresh" /\ plain' = <<>>
  /\ qbits' = 0 /\ buffer' = <<>>
  /\ Enter

\* pk_ecdh_encrypt when gcry_pk_encrypt fails: its error is returned.
PkEncryptFails ==
  /\ pc = "idle"
  /\ \E e \in {GPG_ERR_BAD_PUBKEY, GPG_ERR_ENOMEM} : rc' = e
  /\ pc' = "returned" /\ fault' = "gcry_pk_encrypt"
  /\ UNCHANGED << args, out, secret_x, secret_x_size, kdf_params,
                  kdf_hash_algo, kdf_encr_algo, iobufs, md, hd, data_buf,
                  data_buf_size, caller, params >>

\* pk_ecdh_decrypt: without data it returns GPG_ERR_BAD_MPI at once,
\* otherwise it is the pipeline with is_encrypt = 0.
pk_ecdh_decrypt(d) ==
  /\ is_encrypt' = FALSE
  /\ data' = d
  /\ out' = StaleMpi
  /\ Enter
  /\ IF d = NoMpi
     THEN pc' = "done" /\ rc' = GPG_ERR_BAD_MPI
     ELSE pc' = "extract" /\ rc' = 0

\* A decryption of a session-key MPI that no encryption of the model made.
EnterDecrypt ==
  /\ pc = "idle"
  /\ \E key \in Keys, fp \in Fingerprints, d \in ForeignWraps :
       \E sp \in SharedPoints(key) :
         /\ Plausible(key, sp, fp, d)
         /\ pkey' = key /\ shared_mpi' = sp /\ pk_fp' = fp
         /\ pk_ecdh_decrypt(d)
  /\ call' = "fresh" /\ plain' = <<>>
  /\ qbits' = 0 /\ buffer' = <<>>
  /\ UNCHANGED << s_ciph, resarr0 >>

\* The recipient decrypts what a successful encryption returned, with the
\* same shared point, public key and fingerprint.
DecryptWrapped ==
  /\ pc = "done" /\ is_encrypt /\ rc = 0 /\ call = "fresh"
  /\ pk_ecdh_decrypt(out)
  /\ call' = "roundtrip" /\ plain' = data
  /\ UNCHANGED << shared_mpi, pk_fp, pkey, params, s_ciph, resarr0 >>

\* a with the octet at position i changed.
Tamper(a, i) == [a EXCEPT ![i] = (a[i] + 1) % 256]

\* The recipient decrypts what a successful encryption returned after it
\* was changed in transit (octet i of the MPI, i = 1 being the length octet)
\* or, for i = 0, under another fingerprint than the sender used.
DecryptTampered ==
  /\ pc = "done" /\ is_encrypt /\ rc = 0 /\ call = "fresh"
  /\ Len(out) > 1 + MaxTamper
  /\ \E i \in (0..(1 + MaxTamper)) \cup {Len(out)} :
       IF i = 0
       THEN /\ pk_fp' = CHOOSE fp \in Fingerprints : fp # pk_fp
            /\ pk_ecdh_decrypt(out)
       ELSE /\ pk_fp' = pk_fp
            /\ pk_ecdh_decrypt(Tamper(out, i))
  /\ call' = "tampered" /\ plain' = data
  /\ UNCHANGED << shared_mpi, pkey, params, s_ciph, resarr0 >>


----------------------------------------------------------------------------
(* pk_ecdh_encrypt_with_shared_point *)

\* Return that swallows the error: the call returns 0 whatever r is.
ReturnSwallowed(r) == pc' = "done" /\ rc' = 0 * r

\* return r
Return(r) == pc' = "done" /\ rc' = r

\* A failed assert, log_bug or BUG: the process is aborted.
Abort == pc' = "aborted" /\ rc' = rc

\* The buffer after the shared point of m octets was printed into it and
\* its X coordinate moved to the front: memmove (secret_x, secret_x+1,
\* secret_x_size); memset (secret_x+secret_x_size, 0, nbytes-secret_x_size).
ExtractX(buf, m, size) ==
  Poke(Poke(buf, 0, Peek(buf, 1, size)), size, Fill(m - size, 0))

\* *out = NULL, and the block that extracts the x component of the shared
\* point into secret_x.
Extract ==
  /\ pc = "extract"
  /\ out' = NoMpi
  /\ \E junk \in JunkBytes :
       LET nbits == pubkey_nbits(pkey)
           size == MpiNbytes(pkey.q)
           fresh == Malloc(size, junk)
           pr == gcry_mpi_print(size, shared_mpi)
           nbytes == Len(pr.bytes)
           x_size == (nbits + 7) \div 8
       IN  IF pr.rc # 0
           THEN /\ secret_x' = Xfree(fresh)
                /\ Return(pr.rc)
                /\ UNCHANGED secret_x_size
           ELSE IF ~(nbytes > x_size)
           THEN /\ secret_x' = [fresh EXCEPT !.buf = Poke(fresh.buf, 0, pr.bytes)]
                /\ secret_x_size' = x_size
                /\ Abort
           ELSE /\ secret_x' = [fresh EXCEPT !.buf =
                                  ExtractX(Poke(fresh.buf, 0, pr.bytes), nbytes, x_size)]
                /\ secret_x_size' = x_size
                /\ pc' = "kekparams" /\ rc' = 0
  /\ UNCHANGED << args, kdf_params, kdf_hash_algo, kdf_encr_algo, iobufs, md,
                  hd, data_buf, data_buf_size, caller, fault, params >>

\* The first test of the block that reads the KEK parameters: 4 octets
\* 03 01 hash_alg symm_alg.
KekFramingOk(b) == ~(Len(b) # 4 \/ b[1] # 3 \/ b[2] # 1)

\* KekHashOk without the test: any hash id passes.
KekHashAny(algo) == TRUE

\* Its tests of kdf_hash_algo and of kdf_encr_algo.
KekHashOk(algo) ==
  ~(algo # GCRY_MD_SHA256 /\ algo # GCRY_MD_SHA384 /\ algo # GCRY_MD_SHA512)
KekCipherOk(algo) ==
  ~(algo # GCRY_CIPHER_AES128 /\ algo # GCRY_CIPHER_AES192
    /\ algo # GCRY_CIPHER_AES256)

\* The block that reads the KEK parameters of the public key.  Its iobuf is
\* never closed.
ReadKekParams ==
  /\ pc = "kekparams"
  /\ iobufs' = [iobufs EXCEPT !.opened = @ + 1]
  /\ LET w == iobuf_write_size_body_mpi(pkey.p)
         b == iobuf_temp_to_buffer(w.bytes, KdfParamsMax)
     IN  /\ kdf_params' = b
         /\ IF ~KekFramingOk(b)
            THEN /\ Return(GPG_ERR_BAD_PUBKEY)
                 /\ UNCHANGED << kdf_hash_algo, kdf_encr_algo >>
            ELSE /\ kdf_hash_algo' = b[3]
                 /\ kdf_encr_algo' = b[4]
                 /\ IF ~KekHashOk(b[3]) \/ ~KekCipherOk(b[4])
                    THEN Return(GPG_ERR_BAD_PUBKEY)
                    ELSE pc' = "kdfparams" /\ rc' = w.rc
  /\ UNCHANGED << args, out, secret_x, secret_x_size, md, hd, data_buf,
                  data_buf_size, caller, fault, params >>

\* KdfMessage with fields 4 and 5 written in the other order.
KdfMessageSwapped(key, fp) ==
  LET f1 == iobuf_write_size_body_mpi(key.c)
      f3 == IF f1.rc # 0 THEN [rc |-> f1.rc, bytes |-> <<>>]
                         ELSE iobuf_write_size_body_mpi(key.p)
  IN  [rc |-> f3.rc,
       bytes |-> f1.bytes \o <<PUBKEY_ALGO_ECDH>> \o f3.bytes
                   \o SubSeq(fp, 1, 20) \o SubSeq(AnonymousSender, 1, 20)]

\* What the block that builds the KDF parameters writes to its iobuf.
KdfMessage(key, fp) ==
  LET f1 == iobuf_write_size_body_mpi(key.c)
      f3 == IF f1.rc # 0 THEN [rc |-> f1.rc, bytes |-> <<>>]
                         ELSE iobuf_write_size_body_mpi(key.p)
  IN  [rc |-> f3.rc,
       bytes |-> f1.bytes \o <<PUBKEY_ALGO_ECDH>> \o f3.bytes
                   \o SubSeq(AnonymousSender, 1, 20) \o SubSeq(fp, 1, 20)]

\* The block that builds the KDF parameters.
BuildKdfParams ==
  /\ pc = "kdfparams"
  /\ iobufs' = [opened |-> iobufs.opened + 1, closed |-> iobufs.closed + 1]
  /\ LET w == KdfMessage(pkey, pk_fp)
     IN  /\ kdf_params' = iobuf_temp_to_buffer(w.bytes, KdfParamsMax)
         /\ IF w.rc # 0 THEN Return(w.rc)
                        ELSE pc' = "derive" /\ rc' = w.rc
  /\ UNCHANGED << args, out, secret_x, secret_x_size, kdf_hash_algo,
                  kdf_encr_algo, md, hd, data_buf, data_buf_size, caller,
                  fault, params >>

\* memset (s, c, n) on buf, s being at C offset off.
Memset(buf, off, c, n) == Poke(buf, off, Fill(n, c % ByteMod))

\* The message the KDF hashes: counter 1, x of the shared point, the KDF
\* parameters.
KdfHashInput(x, kdf) == <<0, 0, 0, 1>> \o x \o kdf

\* The secret buffer after the digest was copied over the shared secret and
\* the tail was cleaned: memcpy (secret_x, gcry_md_read (h, algo), dlen);
\* memset (secret_x+secret_x_size, old_size-secret_x_size, 0).
KekBuffer(buf, digest, old_size, keylen) ==
  Memset(Poke(buf, 0, digest), keylen, old_size - keylen, 0)

\* The block that derives the KEK from secret_x and kdf_params.  A digest
\* longer than the buffer is copied past its end: the process crashes, or
\* goes on with the part of the digest that is inside the buffer.
DeriveKek ==
  /\ pc = "derive"
  /\ \E openfails \in BOOLEAN, crash \in BOOLEAN :
       LET dlen == gcry_md_get_algo_dlen(kdf_hash_algo)
           keylen == gcry_cipher_get_algo_keylen(kdf_encr_algo)
           old_size == secret_x_size
           room == Len(secret_x.buf)
           digest == Digest(kdf_hash_algo,
                       KdfHashInput(Peek(secret_x.buf, 0, secret_x_size),
                                    kdf_params))
           copied == IF dlen > room THEN SubSeq(digest, 1, room) ELSE digest
       IN  /\ (crash => ~openfails /\ dlen >= 32 /\ dlen > room)
           /\ IF openfails
              THEN \* log_bug
                   /\ fault' = "gcry_md_open" /\ Abort
                   /\ UNCHANGED << md, secret_x, secret_x_size >>
              ELSE IF ~(dlen >= 32)
              THEN /\ md' = [md EXCEPT !.opened = @ + 1]
                   /\ Abort
                   /\ UNCHANGED << fault, secret_x, secret_x_size >>
              ELSE IF crash
              THEN \* memcpy writes past the end of secret_x
                   /\ md' = [md EXCEPT !.opened = @ + 1]
                   /\ pc' = "overflow" /\ rc' = rc
                   /\ UNCHANGED << fault, secret_x, secret_x_size >>
              ELSE /\ md' = [opened |-> md.opened + 1, closed |-> md.closed + 1]
                   /\ fault' = fault
                   /\ IF ~(old_size >= keylen) \/ ~(keylen <= dlen)
                      THEN /\ secret_x' = [secret_x EXCEPT !.buf = Poke(@, 0, copied)]
                           /\ secret_x_size' = IF old_size >= keylen THEN keylen ELSE old_size
                           /\ Abort
                      ELSE /\ secret_x' = [secret_x EXCEPT !.buf =
                                             KekBuffer(@, copied, old_size, keylen)]
                           /\ secret_x_size' = keylen
                           /\ pc' = "cipheropen" /\ rc' = rc
  /\ UNCHANGED << args, out, kdf_params, kdf_hash_algo, kdf_encr_algo, iobufs,
                  hd, data_buf, data_buf_size, caller, params >>

\* gcry_cipher_open (&hd, kdf_encr_algo, GCRY_CIPHER_MODE_AESWRAP, 0)
CipherOpen ==
  /\ pc = "cipheropen"
  /\ \E e \in {0, GPG_ERR_CIPHER_ALGO} :
       IF e # 0
       THEN fault' = "gcry_cipher_open" /\ Return(e) /\ hd' = hd
       ELSE /\ fault' = fault
            /\ hd' = [hd EXCEPT !.opened = @ + 1]
            /\ pc' = "setkey" /\ rc' = e
  /\ UNCHANGED << args, out, secret_x, secret_x_size, kdf_params,
                  kdf_hash_algo, kdf_encr_algo, iobufs, md, data_buf,
                  data_buf_size, caller, params >>

\* gcry_cipher_setkey (hd, secret_x, secret_x_size); xfree (secret_x)
SetKey ==
  /\ pc = "setkey"
  /\ secret_x' = Xfree(secret_x)
  /\ \E e \in {0, GPG_ERR_SELFTEST_FAILED} :
       IF e # 0
       THEN /\ fault' = "gcry_cipher_setkey"
            /\ hd' = [hd EXCEPT !.closed = @ + 1]
            /\ Return(e)
       ELSE /\ fault' = fault
            /\ hd' = [hd EXCEPT !.key = Peek(secret_x.buf, 0, secret_x_size)]
            /\ pc' = "databuf" /\ rc' = e
  /\ UNCHANGED << args, out, secret_x_size, kdf_params, kdf_hash_algo,
                  kdf_encr_algo, iobufs, md, data_buf, data_buf_size, caller,
                  params >>

\* The size of data, its assertion, and the allocation of data_buf.
AllocDataBuf ==
  /\ pc = "databuf"
  /\ data_buf_size' = (MpiNbytes(data) * 8 + 7) \div 8
  /\ IF ~(data_buf_size' % 8 = (IF is_encrypt THEN 0 ELSE 1))
     THEN Abort /\ UNCHANGED << hd, data_buf, fault >>
     ELSE \E nomem \in BOOLEAN, junk \in JunkBytes :
            IF nomem
            THEN /\ fault' = "xtrymalloc_secure"
                 /\ hd' = [hd EXCEPT !.closed = @ + 1]
                 /\ data_buf' = data_buf
                 /\ Return(GPG_ERR_ENOMEM)
            ELSE /\ fault' = fault /\ hd' = hd
                 /\ data_buf' = Malloc(1 + 2 * data_buf_size' + 8, junk)
                 /\ pc' = (IF is_encrypt THEN "wrap" ELSE "unwrap") /\ rc' = rc
  /\ UNCHANGED << args, out, secret_x, secret_x_size, kdf_params,
                  kdf_hash_algo, kdf_encr_algo, iobufs, md, caller, params >>

\* data_buf after the encrypting branch has printed data at its end,
\* wrapped it to offset 1 and cleared the plaintext: the buffer before the
\* length octet is stored.
WrapBuffer(buf, size, key, d) ==
  LET in_off == 1 + size + 8
      b1 == Poke(buf, in_off, gcry_mpi_print(size, d).bytes)
      enc == gcry_cipher_encrypt(key, size + 8, Peek(b1, in_off, size))
  IN  [rc |-> enc.rc,
       buf |-> Memset(Poke(b1, 1, enc.out), in_off, 0, size)]

\* WrapResult with the length octet set to data_buf_size.
WrapResultShort(buf, size) ==
  LET b == Poke(buf, 0, << size % ByteMod >>)
  IN  Peek(b, 0, 1 + b[1])

\* data_buf[0] = data_buf_size+8, and the octets handed to gcry_mpi_scan:
\* data_buf, 1+data_buf[0].
WrapResult(buf, size) ==
  LET b == Poke(buf, 0, << (size + 8) % ByteMod >>)
  IN  Peek(b, 0, 1 + b[1])

\* The encrypting branch of the last block.
Wrap ==
  /\ pc = "wrap"
  /\ LET pr == gcry_mpi_print(data_buf_size, data)
         w == WrapBuffer(data_buf.buf, data_buf_size, hd.key, data)
     IN  /\ hd' = [hd EXCEPT !.closed = @ + 1]
         /\ data_buf' = Xfree(data_buf)
         /\ IF pr.rc # 0
            THEN Return(pr.rc) /\ UNCHANGED << out, fault >>
            ELSE IF w.rc # 0
            THEN Return(w.rc) /\ UNCHANGED << out, fault >>
            ELSE \E e \in {0, GPG_ERR_ENOMEM} :
                   IF e # 0
                   THEN fault' = "gcry_mpi_scan" /\ Return(e) /\ out' = out
                   ELSE /\ fault' = fault
                        /\ out' = MpiScan(WrapResult(w.buf, data_buf_size))
                        /\ Return(e)
  /\ UNCHANGED << args, secret_x, secret_x_size, kdf_params, kdf_hash_algo,
                  kdf_encr_algo, iobufs, md, data_buf_size, caller, params >>

\* The size test of the decrypting branch on the printed data:
\* nbytes != data_buf_size || data_buf[0] != data_buf_size-1.
InconsistentSize(buf, nbytes, size) ==
  nbytes # size \/ buf[1] # size - 1

\* UnwrapBuffer reading the wrap from offset 0, the length octet included.
UnwrapBufferFromStart(buf, size, key) ==
  LET len == buf[1]
      dec == gcry_cipher_decrypt(key, len, Peek(buf, 0, len))
  IN  [rc |-> dec.rc,
       bytes |-> IF dec.rc # 0 THEN <<>>
                 ELSE Peek(Poke(buf, size, dec.out), size, len - 8)]

\* UnwrapBuffer that takes the unwrapped octets whatever gcry_cipher_decrypt
\* returned.
UnwrapBufferUnchecked(buf, size, key) ==
  LET len == buf[1]
  IN  [rc |-> 0,
       bytes |-> AesUnwrapPlain(key, Peek(buf, 1, len))]

\* data_buf[0] octets from offset 1 unwrapped to in = data_buf+size: the
\* value of gcry_cipher_decrypt and the data_buf[0]-8 octets at in that go
\* to gcry_mpi_scan.
UnwrapBuffer(buf, size, key) ==
  LET len == buf[1]
      dec == gcry_cipher_decrypt(key, len, Peek(buf, 1, len))
  IN  [rc |-> dec.rc,
       bytes |-> IF dec.rc # 0 THEN <<>>
                 ELSE Peek(Poke(buf, size, dec.out), size, len - 8)]

\* The decrypting branch of the last block.
Unwrap ==
  /\ pc = "unwrap"
  /\ LET pr == gcry_mpi_print(data_buf_size, data)
         b1 == Poke(data_buf.buf, 0, pr.bytes)
         u == UnwrapBuffer(b1, data_buf_size, hd.key)
     IN  /\ data_buf' = Xfree(data_buf)
         /\ IF InconsistentSize(b1, Len(pr.bytes), data_buf_size)
            THEN /\ Return(GPG_ERR_BAD_MPI)
                 /\ UNCHANGED << hd, out, fault, data_buf_size >>
            ELSE /\ hd' = [hd EXCEPT !.closed = @ + 1]
                 /\ IF u.rc # 0
                    THEN /\ Return(u.rc)
                         /\ data_buf_size' = b1[1]
                         /\ UNCHANGED << out, fault >>
                    ELSE /\ data_buf_size' = b1[1] - 8
                         /\ \E e \in {0, GPG_ERR_ENOMEM} :
                              IF e # 0
                              THEN fault' = "gcry_mpi_scan" /\ Return(e) /\ out' = out
                              ELSE /\ fault' = fault
                                   /\ out' = MpiScan(u.bytes)
                                   /\ Return(e)
  /\ UNCHANGED << args, secret_x, secret_x_size, kdf_params, kdf_hash_algo,
                  kdf_encr_algo, iobufs, md, caller, params >>

----------------------------------------------------------------------------

Next ==
  \/ DefaultParams
  \/ EnterEncrypt
  \/ PkEncryptFails
  \/ EnterDecrypt
  \/ DecryptWrapped
  \/ DecryptTampered
  \/ Extract
  \/ ReadKekParams
  \/ BuildKdfParams
  \/ DeriveKek
  \/ CipherOpen
  \/ SetKey
  \/ AllocDataBuf
  \/ Wrap
  \/ Unwrap

Spec == Init /\ [][Next]_vars

----------------------------------------------------------------------------
(* What the claims speak of. *)

\* A call of the pipeline has ended: returned, aborted, or run over the end
\* of the secret buffer.
Ended == call # "none" /\ pc \in {"done", "aborted", "overflow"}

\* The KEK-parameter blob of the public key: the octets the pipeline reads
\* the KEK parameters from.
KekBlob == << Len(pkey.p) >> \o pkey.p

\* The blob is not 03 01 h c with h a SHA-2 hash and c an AES cipher.
BlobMalformed ==
  \/ Len(KekBlob) # 4
  \/ KekBlob[1] # 3
  \/ KekBlob[2] # 1
  \/ KekBlob[3] \notin {8, 9, 10}
  \/ KekBlob[4] \notin {7, 8, 9}

\* n = ceil(qbits/8) of the key's curve.
CurveOctets == (pubkey_nbits(pkey) + 7) \div 8

\* The shared point's octets [1 .. 1+n).
SharedX == SubSeq(shared_mpi, 2, 1 + CurveOctets)

\* The layout of the KDF input with the KEK field f between the algorithm
\* id and the sender string.
KdfLayout(f) ==
  << Len(pkey.c) >> \o pkey.c \o << 18 >> \o f
     \o << 65, 110, 111, 110, 121, 109, 111, 117, 115, 32,
           83, 101, 110, 100, 101, 114, 32, 32, 32, 32 >>
     \o pk_fp

\* The KDF input of the call: what fits the 256-octet scratch buffer of the
\* layout with the blob's four octets as the KEK field.
KdfInput ==
  LET full == KdfLayout(KekBlob)
  IN  IF Len(full) > 256 THEN SubSeq(full, 1, 256) ELSE full

\* The KEK of the call: the first k octets of the digest of 00 00 00 01,
\* the shared secret and the KDF input.
ExpectedKek ==
  SubSeq(Digest(KekBlob[3], <<0, 0, 0, 1>> \o SharedX \o KdfInput),
         1, gcry_cipher_get_algo_keylen(KekBlob[4]))

----------------------------------------------------------------------------
(* C1 *)

\* The rows the claim lists: threshold, hash id, cipher id.
C1Rows == << <<256, 8, 7>>, <<384, 9, 9>>, <<528, 10, 9>> >>
C1Row(q) ==
  IF \E i \in 1..3 : C1Rows[i][1] >= q
  THEN C1Rows[CHOOSE i \in 1..3 :
                /\ C1Rows[i][1] >= q
                /\ \A j \in 1..3 : C1Rows[j][1] >= q => i <= j]
  ELSE C1Rows[3]

\* C1: whenever pk_ecdh_default_params returns a buffer for qbits, it is the
\* 4 octets 03 01 hash cipher of the first row of the table (256: SHA-256,
\* AES-128; 384: SHA-384, AES-256; 528: SHA-512, AES-256) whose threshold
\* is >= qbits, and of the last row when no threshold is >= qbits.
C1_DefaultParams ==
  (pc = "returned" /\ fault = "none") =>
     buffer = << 3, 1, C1Row(qbits)[2], C1Row(qbits)[3] >>

\* C1 witness: qbits = 1024 exceeds every threshold and got the last row.
C1_Witness ==
  pc = "returned" /\ qbits = 1024 /\ buffer = << 3, 1, 10, 9 >>

----------------------------------------------------------------------------
(* C2 *)

\* C2: in every call that has read the KEK parameters of the public key,
\* a malformed blob (length not 4, byte 0 not 3, byte 1 not 1, hash not
\* SHA-256/384/512, cipher not AES-128/192/256) has made the call return
\* GPG_ERR_BAD_PUBKEY with no output, and a well-formed blob never makes
\* it return GPG_ERR_BAD_PUBKEY.
C2_KekParamsValidated ==
  (call # "none" /\ iobufs.opened >= 1) =>
     IF BlobMalformed
     THEN pc = "done" /\ rc = GPG_ERR_BAD_PUBKEY /\ out = NoMpi
     ELSE ~(pc = "done" /\ rc = GPG_ERR_BAD_PUBKEY)

\* C2 witness: the blob 03 01 02 07 (SHA-1) was refused.
C2_Witness ==
  /\ pc = "done" /\ rc = GPG_ERR_BAD_PUBKEY /\ out = NoMpi
  /\ KekBlob = << 3, 1, 2, 7 >> /\ iobufs.opened = 1

----------------------------------------------------------------------------
(* C3 *)

\* The KDF input has been built and the call goes on.
KdfBuilt == pc \in {"derive", "cipheropen", "setkey", "databuf", "wrap", "unwrap"}

\* C3 as stated: the KDF input is the length octet of the OID, the OID,
\* 0x12, a length octet of the KEK-parameter blob, the blob, the sender
\* string and the fingerprint (04 03 01 hash cipher for the KEK field).
C3_Original ==
  KdfBuilt => kdf_params = KdfLayout(<< Len(KekBlob) >> \o KekBlob)

\* C3 amended: the KDF input is the first 256 octets of: the length octet
\* of the OID, the OID, 0x12, the four octets 03 01 hash cipher of the
\* KEK-parameter blob (its leading 03 is the only length octet), the sender
\* string, the fingerprint; all of them when the OID has at most 210
\* octets.  It is a function of OID, blob and fingerprint alone.
C3_KdfInput ==
  KdfBuilt =>
     /\ kdf_params = KdfInput
     /\ Len(pkey.c) <= 210 => kdf_params = KdfLayout(KekBlob)

\* C3 witness: the KDF input of a P-256 key with SHA-256 and AES-128 and
\* the zero fingerprint.
C3_Witness ==
  /\ pc = "derive"
  /\ kdf_params = << 8, 42, 134, 72, 206, 61, 3, 1, 7, 18, 3, 1, 8, 7 >>
                    \o AnonymousSender \o Fill(20, 0)

----------------------------------------------------------------------------
(* C4 *)

\* The key is of one of the supported curves P-256, P-384, P-521: its
\* public point has 65, 97 or 133 octets.
SupportedCurve == MpiNbytes(pkey.q) \in {65, 97, 133}

----------------------------------------------------------------------------
(* C5 *)

\* An encryption has returned success.
Encrypted == pc = "done" /\ call = "fresh" /\ is_encrypt /\ rc = 0

----------------------------------------------------------------------------
(* C6 *)

\* A decryption has come to its last block: the key is set, no backend
\* call has failed.
SizeTestReached ==
  /\ Ended /\ ~is_encrypt /\ data # NoMpi
  /\ hd.opened = 1 /\ secret_x.st = "freed" /\ fault = "none"

\* The input MPI's first octet is not its octet length less one, or is not
\* a multiple of 8, or is below 24.
WrapMalformed ==
  \/ data = <<>>
  \/ data[1] # Len(data) - 1
  \/ data[1] % 8 # 0
  \/ data[1] < 24

\* C6: a decryption whose input MPI has a leading length octet that differs
\* from its octet length less one, or that is not a multiple of 8 or is
\* below 24, returns GPG_ERR_BAD_MPI with no output and does not abort.
C6_BadMpi ==
  (SizeTestReached /\ WrapMalformed) =>
     pc = "done" /\ rc = GPG_ERR_BAD_MPI /\ out = NoMpi

----------------------------------------------------------------------------
(* C7 *)

\* A decryption has handed a wrap of consistent size to the unwrap and the
\* integrity value did not come out right.
IntegrityFailed ==
  /\ pc = "done" /\ call # "none" /\ ~is_encrypt /\ fault = "none"
  /\ hd.closed = 1 /\ data_buf.st = "freed"
  /\ Len(data) >= 25 /\ data[1] = Len(data) - 1
  /\ ~AesUnwrapOk(hd.key, Tail(data))

\* C7 as stated: a failed unwrap integrity check makes the decryption
\* return GPG_ERR_BAD_KEY and no session-key MPI.
C7_Original ==
  IntegrityFailed => rc = GPG_ERR_BAD_KEY /\ out = NoMpi

\* C7 amended: a failed unwrap integrity check makes the decryption return
\* the error value of the backend's unwrap unchanged, GPG_ERR_CHECKSUM, and
\* no session-key MPI.
C7_UnwrapFailure ==
  IntegrityFailed => rc = GPG_ERR_CHECKSUM /\ out = NoMpi

\* C7 witness: a wrap whose last octet was changed in transit was refused.
C7_Witness ==
  /\ IntegrityFailed /\ call = "tampered" /\ pk_fp = MainFp
  /\ rc = GPG_ERR_CHECKSUM /\ out = NoMpi
  /\ SubSeq(data, 1, Len(data) - 1)
       = SubSeq(<< Len(plain) + 8 >> \o AesWrap(hd.key, plain), 1, Len(data) - 1)

----------------------------------------------------------------------------
(* C8 *)

\* C8: when the pipeline has returned, success or error, neither the
\* secret buffer nor the work buffer is still allocated.
C8_SecretsReleased ==
  (call # "none" /\ pc = "done") =>
     secret_x.st # "live" /\ data_buf.st # "live"

----------------------------------------------------------------------------
(* C9 *)

\* C9: no hash or cipher context is closed more often than it was opened,
\* and when the pipeline has returned every context it opened is closed.
C9_ContextsClosed ==
  call # "none" =>
     /\ md.closed <= md.opened /\ hd.closed <= hd.opened
     /\ pc = "done" => md.closed = md.opened /\ hd.closed = hd.opened

----------------------------------------------------------------------------
(* C10 *)

\* The block that extracts the shared secret has just run.
Extracted ==
  /\ call # "none" /\ data # NoMpi
  /\ pc \in {"kekparams", "done", "aborted"} /\ iobufs.opened = 0

\* C10: a shared point of m > n octets, n = ceil(qbits/8), leaves a secret
\* of n octets equal to the point's octets [1 .. 1+n) and zero octets in
\* the rest of the buffer; a shared point of m <= n octets makes the call
\* return GPG_ERR_BAD_PUBKEY.
C10_SharedSecret ==
  Extracted =>
     IF Len(shared_mpi) > CurveOctets
     THEN /\ pc = "kekparams" /\ secret_x.st = "live"
          /\ secret_x_size = CurveOctets
          /\ SubSeq(secret_x.buf, 1, CurveOctets) = SharedX
          /\ \A i \in (CurveOctets + 1)..Len(secret_x.buf) : secret_x.buf[i] = 0
     ELSE pc = "done" /\ rc = GPG_ERR_BAD_PUBKEY

----------------------------------------------------------------------------
(* C11 *)

\* The key derivation has just run and the call goes on.
Derived == call # "none" /\ pc = "cipheropen"

\* The octets of the secret buffer that have held secret material: the
\* shared secret wrote [0, n), the digest wrote [0, dlen).
SecretExtent ==
  LET dlen == gcry_md_get_algo_dlen(kdf_hash_algo)
  IN  IF dlen > CurveOctets THEN dlen ELSE CurveOctets

\* C11: after key derivation the secret buffer starts with the KEK, the
\* first k octets of the digest of 00 00 00 01, the shared secret and the
\* KDF input, k being the key length of the cipher; the KEK length is k;
\* and every octet past offset k that held shared-secret or digest material
\* is zero.
C11_KekTailZero ==
  Derived =>
     LET k == gcry_cipher_get_algo_keylen(kdf_encr_algo)
     IN  /\ secret_x_size = k
         /\ Peek(secret_x.buf, 0, k) = ExpectedKek
         /\ \A i \in (k + 1)..SecretExtent :
              i <= Len(secret_x.buf) => secret_x.buf[i] = 0

\* The part of C11 about the KEK itself.
KekInPlace ==
  Derived =>
     /\ secret_x_size = gcry_cipher_get_algo_keylen(kdf_encr_algo)
     /\ Peek(secret_x.buf, 0, secret_x_size) = ExpectedKek

----------------------------------------------------------------------------
(* C12 *)

\* C12: once pk_ecdh_encrypt has released the container of the backend's
\* encryption result, both the shared point ("a") and the ephemeral public
\* point ("b") have been read from it before the release, and nothing was
\* read from it after the release.
C12_ReadsBeforeRelease ==
  s_ciph.st = "released" =>
     s_ciph.reads = {"a", "b"} /\ s_ciph.late = {}

----------------------------------------------------------------------------
(* C13 *)

\* The pipeline is between its entry block and its return.
InPipeline ==
  /\ call # "none" /\ data # NoMpi
  /\ pc \in {"kekparams", "kdfparams", "derive", "cipheropen", "setkey",
             "databuf", "wrap", "unwrap"}

\* The pipeline has returned.
Returned == call # "none" /\ data # NoMpi /\ pc = "done"

\* The position of a block in the pipeline.
Rank(p) ==
  CASE p = "idle" -> 0
    [] p = "extract" -> 1
    [] p = "kekparams" -> 2
    [] p = "kdfparams" -> 3
    [] p = "derive" -> 4
    [] p = "cipheropen" -> 5
    [] p = "setkey" -> 6
    [] p = "databuf" -> 7
    [] p \in {"wrap", "unwrap"} -> 8
    [] OTHER -> 9

\* The output is NULL from the entry block to the last step and after every
\* error return, and it is an MPI after a return of 0.
OutIffSuccess ==
  /\ InPipeline => out = NoMpi
  /\ Returned => (rc = 0 <=> out # NoMpi)

\* Within a call every step goes to a later block, and nothing runs after
\* an error return.
NoRetry ==
  /\ pc \notin {"idle", "done"} => Rank(pc') > Rank(pc)
  /\ ~(pc = "done" /\ rc # 0)

\* C13: pk_ecdh_encrypt_with_shared_point leaves its output MPI set if and
\* only if it returns 0: the output is NULL from entry on, is assigned only
\* by the last step of wrap or unwrap, and is NULL after every error
\* return; no block of the pipeline runs twice and none runs after an error
\* return.
C13_OutIffSuccess == []OutIffSuccess /\ [][NoRetry]_vars

\* C13 witness: the last step of a decryption failed (gcry_mpi_scan, out of
\* memory) and the call returned the error with no output.
C13_Witness ==
  /\ Returned /\ ~is_encrypt /\ fault = "gcry_mpi_scan"
  /\ rc = GPG_ERR_ENOMEM /\ out = NoMpi /\ hd.closed = 1

----------------------------------------------------------------------------
(* C14 *)

\* The key derivation has run on a key that passed the validation of its
\* KEK parameters, and the secret buffer is still there.
DeriveRan ==
  /\ call # "none" /\ ~BlobMalformed
  /\ md.opened = 1 /\ secret_x.st = "live"

\* C14: for every public key accepted by the KEK-parameter validation, the
\* digest copied into the secret buffer (32, 48 or 64 octets) is no longer
\* than the buffer, whose size is the octet length of the public point, and
\* the assertion that the shared secret's ceil(qbits/8) octets are at least
\* the cipher key length does not fail.
C14_DigestFits ==
  DeriveRan =>
     /\ Len(secret_x.buf) = MpiNbytes(pkey.q)
     /\ gcry_md_get_algo_dlen(kdf_hash_algo) <= Len(secret_x.buf)
     /\ pc # "overflow"
     /\ CurveOctets >= gcry_cipher_get_algo_keylen(kdf_encr_algo)
     /\ pc # "aborted"

\* The same for the keys of the curves P-256, P-384 and P-521.
DigestFitsSupported ==
  (DeriveRan /\ pkey \in SupportedKeys \cup OddKeys) =>
     /\ gcry_md_get_algo_dlen(kdf_hash_algo) <= Len(secret_x.buf)
     /\ pc # "overflow"
     /\ CurveOctets >= gcry_cipher_get_algo_keylen(kdf_encr_algo)
     /\ pc # "aborted"

====
